---- MODULE Spec2Model ----
(***************************************************************************)
(* Model of infra/python/infra_deployer.py: the retry decorator, the       *)
(* resource managers and the driver main(), run against a provider whose   *)
(* requests may fail.  One attempt of a manager operation (one invocation  *)
(* of the decorated function by the wrapper) is computed by an operator    *)
(* that threads the provider state through the requests the code issues,   *)
(* in the order the code issues them; the wrapper and the driver are the   *)
(* actions.                                                                *)
(***************************************************************************)
EXTENDS Integers, Sequences, FiniteSets, TLC

VARIABLES
    prov,         \* the provider's state (what describe_* calls would show)
    call,         \* the manager call in progress or last finished
    invocations,  \* times the wrapped function was invoked in this call
    sleeps,       \* the time.sleep durations of this call, in order
    lastReqs,     \* provider requests of the most recent attempt, in order
    issued,       \* names of the provider requests issued during this call
    ncreate,      \* creation requests issued during this call, failed or not
    pre,          \* the provider state when this call began
    prev,         \* summary of the call finished before this one
    ncalls,       \* manager calls made so far
    pc,           \* position of main()
    ctx,          \* identifiers main() holds in its local variables
    policy,       \* the max_attempts and backoff_seconds callers pass
    order,        \* managers in the order main() first used them
    etl           \* a run of VehicleMarketPipeline: its position, locals and stores

vars == <<prov, call, invocations, sleeps, lastReqs, issued, ncreate, pre, prev,
          ncalls, pc, ctx, policy, order, etl>>

-----------------------------------------------------------------------------
(* Bounds of the model *)

MaxAttempts == 3
MaxBackoff == 2
MaxCalls == 2

(* Defaults of the wrapper's keyword arguments *)
DefaultAttempts == 5
DefaultBackoff == 2

-----------------------------------------------------------------------------
(* Errors.  A provider request that fails raises an exception carrying an  *)
(* error code.  Throttling stands for the retry-worthy codes,              *)
(* ValidationError for a malformed request.                                *)

TransientCodes == {"Throttling"}
NonTransientCodes == {"ValidationError"}
FaultCodes == TransientCodes \cup NonTransientCodes

\* botocore's WaiterError and Python's ValueError, KeyError and NameError are
\* not ClientError.
IsClientError(err) ==
    err \notin {"WaiterError", "ValueError", "KeyError", "NameError", ""}

\* Which request of an attempt fails (0: none).  No operation issues more than
\* four requests in one attempt (ensure_vpc: describe, create, modify, modify).
FaultPoints == 0..4

\* A request with the parameters it carries, where a property needs them.
ReqWith(api, resp, rid, rname, found, params) ==
    [api |-> api, resp |-> resp, rid |-> rid, rname |-> rname, found |-> found,
     params |-> params]

Req(api, resp, rid, rname, found) == ReqWith(api, resp, rid, rname, found, <<>>)

NoCreds == [username |-> "", password |-> ""]

Returned(p, reqs, id, name) ==
    [prov |-> p, reqs |-> reqs,
     out |-> [kind |-> "ret", id |-> id, name |-> name, err |-> "",
              creds |-> NoCreds]]

\* return {"username": ..., "password": ...}
ReturnedCreds(p, reqs, creds) ==
    [prov |-> p, reqs |-> reqs,
     out |-> [kind |-> "ret", id |-> 0, name |-> "", err |-> "",
              creds |-> creds]]

Raised(p, reqs, code) ==
    [prov |-> p, reqs |-> reqs,
     out |-> [kind |-> "raise", id |-> 0, name |-> "", err |-> code,
              creds |-> NoCreds]]

NoOut == [kind |-> "none", id |-> 0, name |-> "", err |-> "", creds |-> NoCreds]

-----------------------------------------------------------------------------
(* Tags *)

_tags(name, extra) ==
    [k \in {"Name"} \cup DOMAIN extra |->
        IF k \in DOMAIN extra THEN extra[k] ELSE name]

HasName(tags, name) == "Name" \in DOMAIN tags /\ tags["Name"] = name

\* main(): tags = {"Project": ..., "Environment": ...}
BaseTags == [k \in {"Project", "Environment"} |->
                IF k = "Project" THEN "proj" ELSE "dev"]

TierTags(tier) == [k \in {"Project", "Environment", "Tier"} |->
                      IF k = "Tier" THEN tier ELSE BaseTags[k]]

\* The item a describe call lists first.
First(S) == CHOOSE x \in S : \A y \in S : x.id <= y.id

-----------------------------------------------------------------------------
(* Provider state *)

\* The secrets an operator has stored, by name: one with both fields, one
\* with an empty SecretString, one without the username field.  No secret is
\* stored under any other name.
SecretStore ==
    {[name |-> "db/ok", empty |-> FALSE,
      fields |-> [k \in {"username", "password"} |->
                     IF k = "username" THEN "admin" ELSE "s3cret"]],
     [name |-> "db/empty", empty |-> TRUE, fields |-> [k \in {} |-> ""]],
     [name |-> "db/nouser", empty |-> FALSE,
      fields |-> [k \in {"password"} |-> "s3cret"]]}

\* No resource yet; the secrets are not the deployer's to create.
EmptyProvider ==
    [next |-> 1, vpcs |-> {}, igws |-> {}, subnets |-> {}, eips |-> {},
     nats |-> {}, sgs |-> {}, lts |-> {}, asgs |-> {}, dbs |-> {},
     buckets |-> {}, rtbs |-> {}, routes |-> {}, profiles |-> {},
     secrets |-> SecretStore]

-----------------------------------------------------------------------------
(* VPCManager.  Each operator is one invocation of the function: p is the  *)
(* provider state, a the arguments, and the request numbered fault (if it  *)
(* is reached) raises code.                                                *)

ensure_vpc(p, a, fault, code) ==
    LET existing == {v \in p.vpcs : HasName(v.tags, a.name)}
        d_ok == Req("describe_vpcs", "ok", 0, a.name, existing # {})
        vpc_id == p.next
        created == [id |-> vpc_id, cidr |-> a.cidr, tags |-> _tags(a.name, a.tags),
                    dnsSupport |-> FALSE, dnsHostnames |-> FALSE]
        p2 == [p EXCEPT !.vpcs = @ \cup {created}, !.next = @ + 1]
        c_ok == Req("create_vpc", "ok", vpc_id, a.name, FALSE)
        p3 == [p2 EXCEPT !.vpcs = (@ \ {created})
                              \cup {[created EXCEPT !.dnsSupport = TRUE]}]
        p4 == [p2 EXCEPT !.vpcs = (@ \ {created})
                              \cup {[created EXCEPT !.dnsSupport = TRUE,
                                                    !.dnsHostnames = TRUE]}]
        m(resp) == Req("modify_vpc_attribute", resp, vpc_id, "", FALSE)
    IN  IF fault = 1
        THEN Raised(p, <<Req("describe_vpcs", code, 0, a.name, FALSE)>>, code)
        ELSE IF existing # {}
        THEN Returned(p, <<d_ok>>, First(existing).id, "")
        ELSE IF fault = 2
        THEN Raised(p, <<d_ok, Req("create_vpc", code, 0, a.name, FALSE)>>, code)
        ELSE IF fault = 3
        THEN Raised(p2, <<d_ok, c_ok, m(code)>>, code)
        ELSE IF fault = 4
        THEN Raised(p3, <<d_ok, c_ok, m("ok"), m(code)>>, code)
        ELSE Returned(p4, <<d_ok, c_ok, m("ok"), m("ok")>>, vpc_id, "")

ensure_internet_gateway(p, a, fault, code) ==
    LET igws == {g \in p.igws : g.vpc = a.vpc_id}
        d_ok == Req("describe_internet_gateways", "ok", a.vpc_id, "", igws # {})
        igw_id == p.next
        created == [id |-> igw_id, tags |-> _tags(a.name, a.tags), vpc |-> 0]
        p2 == [p EXCEPT !.igws = @ \cup {created}, !.next = @ + 1]
        c_ok == Req("create_internet_gateway", "ok", igw_id, a.name, FALSE)
        p3 == [p2 EXCEPT !.igws = (@ \ {created})
                              \cup {[created EXCEPT !.vpc = a.vpc_id]}]
        t(resp) == Req("attach_internet_gateway", resp, igw_id, "", FALSE)
    IN  IF fault = 1
        THEN Raised(p, <<Req("describe_internet_gateways", code, a.vpc_id, "",
                             FALSE)>>, code)
        ELSE IF igws # {}
        THEN Returned(p, <<d_ok>>, First(igws).id, "")
        ELSE IF fault = 2
        THEN Raised(p, <<d_ok, Req("create_internet_gateway", code, 0, a.name,
                                   FALSE)>>, code)
        ELSE IF fault = 3
        THEN Raised(p2, <<d_ok, c_ok, t(code)>>, code)
        ELSE Returned(p3, <<d_ok, c_ok, t("ok")>>, igw_id, "")

ensure_subnet(p, a, fault, code) ==
    LET existing == {s \in p.subnets : s.vpc = a.vpc_id /\ s.cidr = a.cidr}
        d_ok == Req("describe_subnets", "ok", a.vpc_id, a.cidr, existing # {})
        subnet_id == p.next
        created == [id |-> subnet_id, vpc |-> a.vpc_id, cidr |-> a.cidr,
                    az |-> a.az, tags |-> _tags(a.name, a.tags),
                    mapPublic |-> FALSE]
        p2 == [p EXCEPT !.subnets = @ \cup {created}, !.next = @ + 1]
        c_ok == Req("create_subnet", "ok", subnet_id, a.cidr, FALSE)
        p3 == [p2 EXCEPT !.subnets = (@ \ {created})
                                 \cup {[created EXCEPT !.mapPublic = TRUE]}]
        m(resp) == Req("modify_subnet_attribute", resp, subnet_id, "", FALSE)
    IN  IF fault = 1
        THEN Raised(p, <<Req("describe_subnets", code, a.vpc_id, a.cidr, FALSE)>>,
                    code)
        ELSE IF existing # {}
        THEN Returned(p, <<d_ok>>, First(existing).id, "")
        ELSE IF fault = 2
        THEN Raised(p, <<d_ok, Req("create_subnet", code, 0, a.cidr, FALSE)>>, code)
        ELSE IF ~a.public
        THEN Returned(p2, <<d_ok, c_ok>>, subnet_id, "")
        ELSE IF fault = 3
        THEN Raised(p2, <<d_ok, c_ok, m(code)>>, code)
        ELSE Returned(p3, <<d_ok, c_ok, m("ok")>>, subnet_id, "")

-----------------------------------------------------------------------------
(* RouteTableManager *)

ensure_route_table(p, a, fault, code) ==
    LET existing == {t \in p.rtbs : t.vpc = a.vpc_id /\ HasName(t.tags, a.name)}
        d(resp) == Req("describe_route_tables", resp, a.vpc_id, a.name,
                       resp = "ok" /\ existing # {})
        rtb_id == p.next
        created == [id |-> rtb_id, vpc |-> a.vpc_id, tags |-> _tags(a.name, a.tags)]
        p2 == [p EXCEPT !.rtbs = @ \cup {created}, !.next = @ + 1]
    IN  IF fault = 1 THEN Raised(p, <<d(code)>>, code)
        ELSE IF existing # {} THEN Returned(p, <<d("ok")>>, First(existing).id, "")
        ELSE IF fault = 2
        THEN Raised(p, <<d("ok"), Req("create_route_table", code, 0, a.name,
                                      FALSE)>>, code)
        ELSE Returned(p2, <<d("ok"), Req("create_route_table", "ok", rtb_id,
                                         a.name, FALSE)>>, rtb_id, "")

\* A function that lets no error of create_route through.
SwallowedAlways(code) == TRUE

\* if exc.response["Error"]["Code"] != "RouteAlreadyExists": raise
Swallowed(code) == code = "RouteAlreadyExists"

\* The provider refuses a second route for a destination of the table with
\* RouteAlreadyExists.  0 stands for a gateway that is not given.
ensure_route(p, a, fault, code) ==
    LET existing == {r \in p.routes : /\ r.rtb = a.route_table_id
                                      /\ r.dest = a.destination_cidr}
        resp == IF fault = 1 THEN code
                ELSE IF existing # {} THEN "RouteAlreadyExists"
                ELSE "ok"
        c == Req("create_route", resp, a.route_table_id, a.destination_cidr,
                 existing # {})
        route == [rtb |-> a.route_table_id, dest |-> a.destination_cidr,
                  gateway |-> a.gateway_id, nat |-> a.nat_gateway_id]
        p2 == [p EXCEPT !.routes = @ \cup {route}]
    IN  IF resp = "ok" THEN Returned(p2, <<c>>, 0, "")
        ELSE IF Swallowed(resp) THEN Returned(p, <<c>>, 0, "")
        ELSE Raised(p, <<c>>, resp)

-----------------------------------------------------------------------------
(* SecurityGroupManager *)

\* The rule the provider gives every new group of a VPC: all traffic out.
DefaultEgress == {"all"}

ensure_security_group(p, a, fault, code) ==
    LET existing == {g \in p.sgs : g.vpc = a.vpc_id /\ g.name = a.name}
        d(resp) == Req("describe_security_groups", resp, a.vpc_id, a.name,
                       resp = "ok" /\ existing # {})
        group_id == p.next
        created == [id |-> group_id, vpc |-> a.vpc_id, name |-> a.name,
                    tags |-> _tags(a.name, a.tags), ingress |-> {},
                    egress |-> DefaultEgress]
        p2 == [p EXCEPT !.sgs = @ \cup {created}, !.next = @ + 1]
    IN  IF fault = 1 THEN Raised(p, <<d(code)>>, code)
        ELSE IF existing # {} THEN Returned(p, <<d("ok")>>, First(existing).id, "")
        ELSE IF fault = 2
        THEN Raised(p, <<d("ok"), Req("create_security_group", code, 0, a.name,
                                      FALSE)>>, code)
        ELSE Returned(p2, <<d("ok"), Req("create_security_group", "ok", group_id,
                                         a.name, FALSE)>>, group_id, "")

\* The rules of one direction the group has.
RulesOf(p, group_id, egress) ==
    UNION {IF egress THEN g.egress ELSE g.ingress : g \in {x \in p.sgs : x.id = group_id}}

\* One direction; k is the position of its describe request in the attempt.
\* With no rule of the direction on the group the function goes on to
\* _normalize_rules(rules), a name the module neither defines nor imports:
\* NameError, and the authorize requests after it are never reached.
_authorize_if_missing(p, group_id, rules, egress, k, fault, code) ==
    LET existing == RulesOf(p, group_id, egress)
        d(resp) == Req("describe_security_group_rules", resp, group_id,
                       IF egress THEN "true" ELSE "false",
                       resp = "ok" /\ existing # {})
    IN  IF fault = k THEN [prov |-> p, reqs |-> <<d(code)>>, err |-> code]
        ELSE IF existing # {} THEN [prov |-> p, reqs |-> <<d("ok")>>, err |-> ""]
        ELSE [prov |-> p, reqs |-> <<d("ok")>>, err |-> "NameError"]

configure_rules(p, a, fault, code) ==
    LET skip(q) == [prov |-> q, reqs |-> <<>>, err |-> ""]
        i == IF a.ingress_rules # <<>>
             THEN _authorize_if_missing(p, a.group_id, a.ingress_rules, FALSE,
                                        1, fault, code)
             ELSE skip(p)
        e == IF i.err = "" /\ a.egress_rules # <<>>
             THEN _authorize_if_missing(i.prov, a.group_id, a.egress_rules, TRUE,
                                        Len(i.reqs) + 1, fault, code)
             ELSE skip(i.prov)
    IN  IF i.err # "" THEN Raised(i.prov, i.reqs, i.err)
        ELSE IF e.err # "" THEN Raised(e.prov, i.reqs \o e.reqs, e.err)
        ELSE Returned(e.prov, i.reqs \o e.reqs, 0, "")

-----------------------------------------------------------------------------
(* NATGatewayManager *)

\* A function that returns the id create_nat_gateway gave without waiting.
ensure_nat_gateway_unwaited(p, a, fault, code) ==
    LET alloc_id == p.next
        eip == [id |-> alloc_id, tags |-> _tags(a.name, a.tags)]
        p2 == [p EXCEPT !.eips = @ \cup {eip}, !.next = @ + 1]
        e_ok == Req("allocate_address", "ok", alloc_id, a.name, FALSE)
        nat_gateway_id == p2.next
        nat == [id |-> nat_gateway_id, subnet |-> a.subnet_id, eip |-> alloc_id,
                tags |-> _tags(a.name, a.tags), available |-> FALSE]
        p3 == [p2 EXCEPT !.nats = @ \cup {nat}, !.next = @ + 1]
        n_ok == Req("create_nat_gateway", "ok", nat_gateway_id, a.name, FALSE)
    IN  IF fault = 1
        THEN Raised(p, <<Req("allocate_address", code, 0, a.name, FALSE)>>, code)
        ELSE IF fault = 2
        THEN Raised(p2, <<e_ok, Req("create_nat_gateway", code, 0, a.name, FALSE)>>,
                    code)
        ELSE Returned(p3, <<e_ok, n_ok>>, nat_gateway_id, "")

ensure_nat_gateway(p, a, fault, code) ==
    LET alloc_id == p.next
        eip == [id |-> alloc_id, tags |-> _tags(a.name, a.tags)]
        p2 == [p EXCEPT !.eips = @ \cup {eip}, !.next = @ + 1]
        e_ok == Req("allocate_address", "ok", alloc_id, a.name, FALSE)
        nat_gateway_id == p2.next
        nat == [id |-> nat_gateway_id, subnet |-> a.subnet_id, eip |-> alloc_id,
                tags |-> _tags(a.name, a.tags), available |-> FALSE]
        p3 == [p2 EXCEPT !.nats = @ \cup {nat}, !.next = @ + 1]
        n_ok == Req("create_nat_gateway", "ok", nat_gateway_id, a.name, FALSE)
        p4 == [p3 EXCEPT !.nats = (@ \ {nat})
                              \cup {[nat EXCEPT !.available = TRUE]}]
    IN  IF fault = 1
        THEN Raised(p, <<Req("allocate_address", code, 0, a.name, FALSE)>>, code)
        ELSE IF fault = 2
        THEN Raised(p2, <<e_ok, Req("create_nat_gateway", code, 0, a.name, FALSE)>>,
                    code)
        ELSE IF fault = 3
        THEN Raised(p3, <<e_ok, n_ok,
                          Req("wait_nat_gateway_available", "WaiterError",
                              nat_gateway_id, "", FALSE)>>, "WaiterError")
        ELSE Returned(p4, <<e_ok, n_ok,
                            Req("wait_nat_gateway_available", "ok",
                                nat_gateway_id, "", FALSE)>>, nat_gateway_id, "")

-----------------------------------------------------------------------------
(* AutoScalingManager *)

\* tags.items(): the caller's mapping as it is, with no Name added.
AsgParams(a) ==
    [name |-> a.name, lt |-> a.launch_template_id, subnets |-> a.subnets,
     desired |-> a.desired, minimum |-> a.minimum, maximum |-> a.maximum,
     tags |-> a.tags]

ensure_auto_scaling_group(p, a, fault, code) ==
    LET present == {g \in p.asgs : g.name = a.name}
        inUse == fault = 1 /\ code = "ResourceInUseFault"
        d == Req("describe_auto_scaling_groups",
                 IF fault = 1 THEN code ELSE "ok", 0, a.name, present # {})
        \* try: describe; exists = True / except ResourceInUseFault: exists = False
        exists == ~inUse
        params == AsgParams(a)
        updated == [p EXCEPT !.asgs = (@ \ present) \cup {params}]
        createdP == [p EXCEPT !.asgs = @ \cup {params}]
        u(resp) == Req("update_auto_scaling_group", resp, 0, a.name, present # {})
        c(resp) == Req("create_auto_scaling_group", resp, 0, a.name, present # {})
    IN  IF fault = 1 /\ ~inUse
        THEN Raised(p, <<d>>, code)
        ELSE IF exists
        THEN IF fault = 2 THEN Raised(p, <<d, u(code)>>, code)
             \* the provider rejects an update of a group it does not have
             ELSE IF present = {}
             THEN Raised(p, <<d, u("ValidationError")>>, "ValidationError")
             ELSE Returned(updated, <<d, u("ok")>>, 0, "")
        ELSE IF fault = 2 THEN Raised(p, <<d, c(code)>>, code)
             \* the provider rejects a second group of the same name
             ELSE IF present # {}
             THEN Raised(p, <<d, c("AlreadyExists")>>, "AlreadyExists")
             ELSE Returned(createdP, <<d, c("ok")>>, 0, "")

-----------------------------------------------------------------------------
(* S3Manager *)

DefaultRegion == "us-east-1"

\* A function that creates the bucket whatever error the probe failed with.
BucketMissingAlways(error_code) == TRUE

\* if error_code in ("404", "NoSuchBucket")
BucketMissing(error_code) == error_code \in {"404", "NoSuchBucket"}

\* A function that gives the location constraint for every region.
LocationConstraintAlways(region) == region

\* if region != "us-east-1": params["CreateBucketConfiguration"] = ...
\* ("": the create request carries no location constraint)
LocationConstraint(region) == IF region # DefaultRegion THEN region ELSE ""

\* head_bucket answers 404 for a bucket that does not exist (NoSuchBucket is
\* the other code the function takes for it), and may fail with any other
\* code whether the bucket exists or not.
ensure_bucket(p, a, fault, code) ==
    LET present == {b \in p.buckets : b.name = a.bucket}
        resp == IF fault = 1 /\ (code # "NoSuchBucket" \/ present = {}) THEN code
                ELSE IF present # {} THEN "ok"
                ELSE "404"
        h == Req("head_bucket", resp, 0, a.bucket, resp = "ok")
        location == LocationConstraint(a.region)
        created == [name |-> a.bucket, location |-> location,
                    versioning |-> FALSE,
                    encryption |-> [SSEAlgorithm |-> "", KMSMasterKeyID |-> ""]]
        p2 == [p EXCEPT !.buckets = @ \cup {created}]
        c(r) == ReqWith("create_bucket", r, 0, a.bucket, FALSE,
                        [location |-> location])
    IN  IF resp = "ok" THEN Returned(p, <<h>>, 0, "")
        ELSE IF ~BucketMissing(resp) THEN Raised(p, <<h>>, resp)
        ELSE IF fault = 2 THEN Raised(p, <<h, c(code)>>, code)
        ELSE Returned(p2, <<h, c("ok")>>, 0, "")

enable_versioning(p, a, fault, code) ==
    LET present == {b \in p.buckets : b.name = a.bucket}
        p2 == [p EXCEPT !.buckets = (@ \ present)
                  \cup {[b EXCEPT !.versioning = TRUE] : b \in present}]
        r(resp) == Req("put_bucket_versioning", resp, 0, a.bucket, present # {})
    IN  IF fault = 1 THEN Raised(p, <<r(code)>>, code)
        ELSE IF present = {} THEN Raised(p, <<r("NoSuchBucket")>>, "NoSuchBucket")
        ELSE Returned(p2, <<r("ok")>>, 0, "")

apply_encryption(p, a, fault, code) ==
    LET present == {b \in p.buckets : b.name = a.bucket}
        \* KMSMasterKeyID is set only for a non-empty kms_key_arn ("": no key)
        config == [SSEAlgorithm |-> a.encryption.type,
                   KMSMasterKeyID |-> a.encryption.kms_key_arn]
        p2 == [p EXCEPT !.buckets = (@ \ present)
                  \cup {[b EXCEPT !.encryption = config] : b \in present}]
        r(resp) == Req("put_bucket_encryption", resp, 0, a.bucket, present # {})
    IN  IF fault = 1 THEN Raised(p, <<r(code)>>, code)
        ELSE IF present = {} THEN Raised(p, <<r("NoSuchBucket")>>, "NoSuchBucket")
        ELSE Returned(p2, <<r("ok")>>, 0, "")

-----------------------------------------------------------------------------
(* IAMManager *)

\* get_instance_profile raises NoSuchEntityException when no profile has the
\* name; the function then creates the profile and attaches the role, in two
\* requests.
ensure_instance_profile(p, a, fault, code) ==
    LET existing == {x \in p.profiles : x.name = a.name}
        g(resp) == Req("get_instance_profile", resp, 0, a.name, existing # {})
        c(resp) == Req("create_instance_profile", resp, 0, a.name, FALSE)
        r(resp) == Req("add_role_to_instance_profile", resp, 0, a.role_name, FALSE)
        pc1 == [p EXCEPT !.profiles = @ \cup {[name |-> a.name, roles |-> {}]}]
        pc2 == [p EXCEPT !.profiles =
                   @ \cup {[name |-> a.name, roles |-> {a.role_name}]}]
    IN  IF fault = 1 THEN Raised(p, <<g(code)>>, code)
        ELSE IF existing # {} THEN Returned(p, <<g("ok")>>, 0, a.name)
        ELSE IF fault = 2
             THEN Raised(p, <<g("NoSuchEntity"), c(code)>>, code)
        ELSE IF fault = 3
             THEN Raised(pc1, <<g("NoSuchEntity"), c("ok"), r(code)>>, code)
        ELSE Returned(pc2, <<g("NoSuchEntity"), c("ok"), r("ok")>>, 0, a.name)

-----------------------------------------------------------------------------
(* LaunchTemplateManager *)

\* A function that takes every failure of the lookup for "no such template".
LookupMissingAlways(code) == TRUE

\* if exc.response["Error"]["Code"] !=
\*     "InvalidLaunchTemplateName.NotFoundException": raise
LookupMissing(code) == code = "InvalidLaunchTemplateName.NotFoundException"

\* The provider refuses a second template of a name.
ensure_launch_template(p, a, fault, code) ==
    LET existing == {t \in p.lts : t.name = a.name}
        resp == IF fault = 1 THEN code ELSE "ok"
        d == Req("describe_launch_templates", resp, 0, a.name,
                 resp = "ok" /\ existing # {})
        lt_id == p.next
        created == [id |-> lt_id, name |-> a.name, image_id |-> a.image_id,
                    instance_type |-> a.instance_type,
                    iam_profile |-> a.iam_profile,
                    security_group_ids |-> a.security_group_ids,
                    tags |-> _tags(a.name, a.tags), user_data |-> a.user_data]
        p2 == [p EXCEPT !.lts = @ \cup {created}, !.next = @ + 1]
        c(r, id) == Req("create_launch_template", r, id, a.name, FALSE)
    IN  IF resp = "ok" /\ existing # {}
        THEN Returned(p, <<d>>, First(existing).id, "")
        ELSE IF resp # "ok" /\ ~LookupMissing(resp) THEN Raised(p, <<d>>, resp)
        ELSE IF fault = 2 THEN Raised(p, <<d, c(code, 0)>>, code)
        ELSE IF existing # {}
             THEN Raised(p, <<d, c("AlreadyExists", 0)>>, "AlreadyExists")
        ELSE Returned(p2, <<d, c("ok", lt_id)>>, lt_id, "")

-----------------------------------------------------------------------------
(* RDSManager *)

\* A create request that leaves the credentials out.
CreateDbParamsBlank(a) ==
    [identifier |-> a.config.identifier,
     instance_class |-> a.config.instance_class,
     username |-> "", password |-> "",
     security_group_id |-> a.security_group_id, tags |-> a.tags,
     parameter_group_name |-> a.config.parameter_group_name]

\* params: what create_db_instance is given ("": no DBParameterGroupName).
\* Tags are the caller's mapping as it is, with no Name added.
CreateDbParams(a) ==
    [identifier |-> a.config.identifier,
     instance_class |-> a.config.instance_class,
     username |-> a.credentials.username, password |-> a.credentials.password,
     security_group_id |-> a.security_group_id, tags |-> a.tags,
     parameter_group_name |-> a.config.parameter_group_name]

\* describe_db_instances raises DBInstanceNotFoundFault when no instance has
\* the identifier.
ensure_postgres(p, a, fault, code) ==
    LET identifier == a.config.identifier
        present == {x \in p.dbs : x.identifier = identifier}
        d(resp) == Req("describe_db_instances", resp, 0, identifier,
                       resp = "ok")
        params == CreateDbParams(a)
        c(resp) == ReqWith("create_db_instance", resp, 0, identifier, FALSE,
                           params)
        p2 == [p EXCEPT !.dbs = @ \cup {params}]
    IN  IF fault = 1 THEN Raised(p, <<d(code)>>, code)
        ELSE IF present # {} THEN Returned(p, <<d("ok")>>, 0, identifier)
        ELSE IF fault = 2
             THEN Raised(p, <<d("DBInstanceNotFound"), c(code)>>, code)
        ELSE Returned(p2, <<d("DBInstanceNotFound"), c("ok")>>, 0, identifier)

-----------------------------------------------------------------------------
(* SecretsManager *)

\* get_secret_value raises ResourceNotFoundException, a ClientError, for a
\* name the store does not hold.  An empty SecretString raises ValueError and
\* a field the payload lacks raises KeyError.
fetch_credentials(p, a, fault, code) ==
    LET held == {x \in p.secrets : x.name = a.secret_name}
        g(resp) == Req("get_secret_value", resp, 0, a.secret_name, held # {})
        secret == (CHOOSE x \in held : TRUE).fields
    IN  IF fault = 1 THEN Raised(p, <<g(code)>>, code)
        ELSE IF held = {}
             THEN Raised(p, <<g("ResourceNotFoundException")>>,
                         "ResourceNotFoundException")
        ELSE IF (CHOOSE x \in held : TRUE).empty
             THEN Raised(p, <<g("ok")>>, "ValueError")
        ELSE IF ~({a.username_key, a.password_key} \subseteq DOMAIN secret)
             THEN Raised(p, <<g("ok")>>, "KeyError")
        ELSE ReturnedCreds(p, <<g("ok")>>,
                           [username |-> secret[a.username_key],
                            password |-> secret[a.password_key]])

\* main(): the one request the driver issues itself
describe_availability_zones(p, a, fault, code) ==
    LET r(resp) == Req("describe_availability_zones", resp, 0, a.region, TRUE)
    IN  IF fault = 1 THEN Raised(p, <<r(code)>>, code)
        ELSE Returned(p, <<r("ok")>>, 0, "")

-----------------------------------------------------------------------------
(* The functions by name *)

Body(op, a, p, fault, code) ==
    CASE op = "ensure_vpc" -> ensure_vpc(p, a, fault, code)
      [] op = "ensure_internet_gateway" -> ensure_internet_gateway(p, a, fault, code)
      [] op = "ensure_subnet" -> ensure_subnet(p, a, fault, code)
      [] op = "ensure_route_table" -> ensure_route_table(p, a, fault, code)
      [] op = "ensure_route" -> ensure_route(p, a, fault, code)
      [] op = "ensure_security_group" -> ensure_security_group(p, a, fault, code)
      [] op = "configure_rules" -> configure_rules(p, a, fault, code)
      [] op = "ensure_nat_gateway" -> ensure_nat_gateway(p, a, fault, code)
      [] op = "ensure_auto_scaling_group" ->
            ensure_auto_scaling_group(p, a, fault, code)
      [] op = "ensure_bucket" -> ensure_bucket(p, a, fault, code)
      [] op = "enable_versioning" -> enable_versioning(p, a, fault, code)
      [] op = "apply_encryption" -> apply_encryption(p, a, fault, code)
      [] op = "ensure_instance_profile" ->
            ensure_instance_profile(p, a, fault, code)
      [] op = "ensure_launch_template" ->
            ensure_launch_template(p, a, fault, code)
      [] op = "ensure_postgres" -> ensure_postgres(p, a, fault, code)
      [] op = "fetch_credentials" -> fetch_credentials(p, a, fault, code)
      [] op = "describe_availability_zones" ->
            describe_availability_zones(p, a, fault, code)

\* The functions that carry the @retryable decorator.
Decorated ==
    {"ensure_vpc", "ensure_internet_gateway", "ensure_subnet",
     "ensure_nat_gateway", "ensure_auto_scaling_group", "ensure_bucket",
     "ensure_instance_profile", "fetch_credentials", "ensure_route_table",
     "ensure_route", "ensure_security_group", "ensure_launch_template",
     "ensure_postgres"}

Wrapped(op) == op \in Decorated

\* What a failing request of the function may raise: ResourceInUseFault is an
\* exception of the autoscaling client.
CodesFor(op) ==
    CASE op = "ensure_auto_scaling_group" ->
            FaultCodes \cup {"ResourceInUseFault"}
      [] op = "ensure_launch_template" ->
            FaultCodes \cup {"InvalidLaunchTemplateName.NotFoundException"}
      [] op = "ensure_bucket" -> FaultCodes \cup {"NoSuchBucket", "403"}
      [] OTHER -> FaultCodes

\* The class a function belongs to ("main": a request main() issues itself).
Manager(op) ==
    CASE op \in {"ensure_vpc", "ensure_internet_gateway", "ensure_subnet"} ->
            "VPCManager"
      [] op \in {"ensure_route_table", "ensure_route"} -> "RouteTableManager"
      [] op \in {"ensure_security_group", "configure_rules"} ->
            "SecurityGroupManager"
      [] op = "ensure_nat_gateway" -> "NATGatewayManager"
      [] op = "ensure_auto_scaling_group" -> "AutoScalingManager"
      [] op = "ensure_instance_profile" -> "IAMManager"
      [] op = "ensure_launch_template" -> "LaunchTemplateManager"
      [] op = "ensure_postgres" -> "RDSManager"
      [] op = "fetch_credentials" -> "SecretsManager"
      [] op \in {"ensure_bucket", "enable_versioning", "apply_encryption"} ->
            "S3Manager"
      [] OTHER -> "main"

CreationApis ==
    {"create_vpc", "create_internet_gateway", "create_subnet",
     "allocate_address", "create_nat_gateway", "create_auto_scaling_group",
     "create_bucket", "create_instance_profile", "create_route_table",
     "create_route", "create_security_group", "create_launch_template",
     "create_db_instance"}

Apis(reqs) == {reqs[i].api : i \in 1..Len(reqs)}

-----------------------------------------------------------------------------
(* retryable: the wrapper *)

\* A wrapper that sleeps the same time after every failed attempt.
BackoffFlat(delay, attempt) == delay

\* time.sleep(delay * attempt)
Backoff(delay, attempt) == delay * attempt

\* except ClientError: if attempt == attempts: raise
Retries(wrapped, err, attempt, attempts) ==
    wrapped /\ IsClientError(err) /\ attempt # attempts

\* One invocation of the function by the wrapper (or by the caller itself when
\* the function is not decorated), with the provider answering.
Invocation(fault, code) == Body(call.op, call.args, prov, fault, code)

Invoked(r) ==
    /\ prov' = r.prov
    /\ invocations' = invocations + 1
    /\ lastReqs' = r.reqs
    /\ issued' = issued \cup Apis(r.reqs)
    /\ ncreate' = ncreate
                    + Cardinality({i \in 1..Len(r.reqs) : r.reqs[i].api \in CreationApis})
    /\ UNCHANGED <<pre, prev, ncalls, pc, ctx, policy, order, etl>>

AttemptReturns ==
    /\ call.status = "running"
    /\ \E fault \in FaultPoints, code \in CodesFor(call.op) :
         LET r == Invocation(fault, code)
         IN  /\ r.out.kind = "ret"
             /\ call' = [call EXCEPT !.status = "returned", !.out = r.out]
             /\ sleeps' = sleeps
             /\ Invoked(r)

AttemptRetries ==
    /\ call.status = "running"
    /\ \E fault \in FaultPoints, code \in CodesFor(call.op) :
         LET r == Invocation(fault, code)
         IN  /\ r.out.kind = "raise"
             /\ Retries(Wrapped(call.op), r.out.err, call.attempt, call.attempts)
             /\ call' = [call EXCEPT !.attempt = @ + 1]
             /\ sleeps' = Append(sleeps, Backoff(call.delay, call.attempt))
             /\ Invoked(r)

AttemptRaises ==
    /\ call.status = "running"
    /\ \E fault \in FaultPoints, code \in CodesFor(call.op) :
         LET r == Invocation(fault, code)
         IN  /\ r.out.kind = "raise"
             /\ ~Retries(Wrapped(call.op), r.out.err, call.attempt, call.attempts)
             /\ call' = [call EXCEPT !.status = "raised", !.out = r.out]
             /\ sleeps' = sleeps
             /\ Invoked(r)

\* A call begins.  attempts and delay are the caller's retry policy; a
\* function without the decorator is invoked once whatever the policy says.
NewCall(op, a, attempts, delay) ==
    /\ call' = [op |-> op, args |-> a, attempts |-> attempts, delay |-> delay,
                attempt |-> 1, status |-> "running", out |-> NoOut]
    /\ prev' = [op |-> call.op, args |-> call.args, status |-> call.status,
                out |-> call.out]
    /\ invocations' = 0
    /\ sleeps' = <<>>
    /\ lastReqs' = <<>>
    /\ issued' = {}
    /\ ncreate' = 0
    /\ pre' = prov
    /\ ncalls' = ncalls + 1
    /\ prov' = prov

-----------------------------------------------------------------------------
(* A caller of one operation: it calls the operation, and calls it again   *)
(* once the call has ended, with arguments a caller of the managers can    *)
(* hold (identifiers are those of resources the provider has), under any   *)
(* retry policy within the bounds.  The provider starts empty or as an     *)
(* earlier run left it.                                                    *)

Operations ==
    {"ensure_vpc", "ensure_internet_gateway", "ensure_subnet",
     "ensure_nat_gateway", "ensure_auto_scaling_group", "ensure_bucket",
     "enable_versioning", "apply_encryption", "ensure_instance_profile",
     "fetch_credentials", "ensure_route_table", "ensure_route",
     "ensure_security_group", "configure_rules", "ensure_launch_template",
     "ensure_postgres"}

VpcArgs == [name |-> "proj-dev", cidr |-> "10.0.0.0/16", tags |-> BaseTags]

SubnetArgs(vpc_id, cidr, public) ==
    [name |-> IF public THEN "public-az-a" ELSE "private-az-a",
     vpc_id |-> vpc_id, cidr |-> cidr, az |-> "az-a",
     public |-> public,
     tags |-> TierTags(IF public THEN "public" ELSE "private")]

\* The ingress rule lists a caller may request.
RuleSets == {<<>>, <<"tcp/443">>, <<"tcp/443", "tcp/80">>}

\* The secret names a configuration may give: the stored ones and one that
\* is not stored.
SecretNames == {"db/ok", "db/empty", "db/nouser", "db/missing"}

\* (desired, minimum, maximum)
Capacities == {<<2, 1, 3>>, <<1, 1, 1>>}

ArgsOf(op, p) ==
    CASE op = "ensure_vpc" -> {VpcArgs}
      [] op = "ensure_internet_gateway" ->
            {[vpc_id |-> v.id, name |-> "proj-dev-igw", tags |-> BaseTags] :
                v \in p.vpcs}
      [] op = "ensure_subnet" ->
            {SubnetArgs(v.id, c, b) :
                v \in p.vpcs, c \in {"10.0.1.0/24", "10.0.2.0/24"}, b \in BOOLEAN}
      [] op = "ensure_nat_gateway" ->
            {[subnet_id |-> n.id, name |-> "proj-dev-nat", tags |-> BaseTags] :
                n \in p.subnets}
      [] op = "ensure_auto_scaling_group" ->
            {[name |-> "proj-dev-asg", launch_template_id |-> "lt-1",
              subnets |-> <<>>, desired |-> c[1], minimum |-> c[2],
              maximum |-> c[3], tags |-> BaseTags] : c \in Capacities}
      [] op = "ensure_bucket" ->
            {[bucket |-> "raw", region |-> r] : r \in {DefaultRegion, "eu-north-1"}}
      [] op = "enable_versioning" -> {[bucket |-> "raw"]}
      [] op = "ensure_launch_template" ->
            {[name |-> "proj-dev-lt", image_id |-> "ami-1",
              instance_type |-> "t3.micro", iam_profile |-> "proj-dev-profile",
              security_group_ids |-> <<>>, user_data |-> u, tags |-> BaseTags] :
                u \in {"", "boot"}}
      [] op = "ensure_postgres" ->
            {[config |-> [identifier |-> "proj-dev-db", instance_class |-> c,
                          parameter_group_name |-> ""],
              subnet_group |-> "proj-dev-dbsubnets", security_group_id |-> 0,
              credentials |-> [username |-> "admin", password |-> "s3cret"],
              tags |-> BaseTags] : c \in {"db.t3.micro", "db.t3.large"}}
      [] op = "ensure_route_table" ->
            {[vpc_id |-> v.id, name |-> "proj-dev-public-rt", tags |-> BaseTags] :
                v \in p.vpcs}
      [] op = "ensure_route" ->
            {[route_table_id |-> t.id, destination_cidr |-> "0.0.0.0/0",
              gateway_id |-> g.id, nat_gateway_id |-> 0] :
                t \in p.rtbs, g \in p.igws}
      [] op = "ensure_security_group" ->
            {[vpc_id |-> v.id, name |-> "proj-dev-app", description |-> "app",
              tags |-> BaseTags] : v \in p.vpcs}
      [] op = "configure_rules" ->
            {[group_id |-> g.id, ingress_rules |-> i, egress_rules |-> e] :
                g \in p.sgs, i \in RuleSets, e \in {<<>>, <<"all">>}}
      [] op = "ensure_instance_profile" ->
            {[name |-> "proj-dev-profile", role_name |-> "proj-dev-role"]}
      [] op = "fetch_credentials" ->
            {[secret_name |-> n, username_key |-> "username",
              password_key |-> "password"] : n \in SecretNames}
      [] op = "apply_encryption" ->
            {[bucket |-> "raw",
              encryption |-> [type |-> "aws:kms", kms_key_arn |-> k]] :
                k \in {"", "arn:key"}}

\* The provider after an earlier run created the VPC and one public subnet.
SeededProvider ==
    LET p1 == ensure_vpc(EmptyProvider, VpcArgs, 0, "ok").prov
    IN  ensure_subnet(p1, SubnetArgs(1, "10.0.1.0/24", TRUE), 0, "ok").prov

\* The provider after an earlier run also attached an internet gateway and
\* created the public route table and the application security group.
ProvisionedProvider ==
    LET p1 == ensure_internet_gateway(SeededProvider,
                  [vpc_id |-> 1, name |-> "proj-dev-igw", tags |-> BaseTags],
                  0, "ok").prov
        p2 == ensure_route_table(p1,
                  [vpc_id |-> 1, name |-> "proj-dev-public-rt", tags |-> BaseTags],
                  0, "ok").prov
    IN  ensure_security_group(p2,
            [vpc_id |-> 1, name |-> "proj-dev-app", description |-> "app",
             tags |-> BaseTags], 0, "ok").prov

\* No pipeline is running.
NoRun == [pc |-> "none"]

NoCall ==
    [op |-> "none", args |-> <<>>, attempts |-> 0, delay |-> 0, attempt |-> 0,
     status |-> "idle", out |-> NoOut]

NoContext ==
    [vpc_id |-> 0, igw_id |-> 0, az_names |-> <<>>, public_subnets |-> <<>>,
     private_subnets |-> <<>>]

Init ==
    /\ prov \in {EmptyProvider, SeededProvider, ProvisionedProvider}
    /\ call = NoCall
    /\ invocations = 0
    /\ sleeps = <<>>
    /\ lastReqs = <<>>
    /\ issued = {}
    /\ ncreate = 0
    /\ pre = prov
    /\ prev = [op |-> "none", args |-> <<>>, status |-> "idle", out |-> NoOut]
    /\ ncalls = 0
    /\ pc = 0
    /\ ctx = NoContext
    /\ policy \in [max_attempts : 1..MaxAttempts, backoff_seconds : 1..MaxBackoff]
    /\ order = <<>>
    /\ etl = NoRun

Invoke ==
    /\ call.status # "running"
    /\ ncalls < MaxCalls
    /\ \E op \in Operations :
       \E a \in ArgsOf(op, prov) :
          /\ call.op \in {"none", op}
          /\ NewCall(op, a, policy.max_attempts, policy.backoff_seconds)
    /\ UNCHANGED <<pc, ctx, policy, order, etl>>

Next == Invoke \/ AttemptReturns \/ AttemptRetries \/ AttemptRaises

Spec == Init /\ [][Next]_vars

-----------------------------------------------------------------------------
(* main(): the driver.  Config is the document load_config returns, and    *)
(* ProviderZones the zones describe_availability_zones lists.              *)

Config ==
    [region |-> "eu-north-1", vpc_cidr |-> "10.0.0.0/16", az_count |-> 2,
     public_cidr_blocks |-> <<"10.0.1.0/24", "10.0.2.0/24">>,
     private_cidr_blocks |-> <<"10.0.11.0/24", "10.0.12.0/24">>,
     raw_bucket |-> "raw", curated_bucket |-> "curated"]

ProviderZones == <<"az-a", "az-b", "az-c">>

Min(x, y) == IF x <= y THEN x ELSE y

\* [az["ZoneName"] for az in azs][: az_count]
AzNames == SubSeq(ProviderZones, 1, Min(Config.az_count, Len(ProviderZones)))

\* zip(cidr_blocks, az_names)
Zip(xs, ys) == [i \in 1..Min(Len(xs), Len(ys)) |-> <<xs[i], ys[i]>>]

Stmt(op, public, i, bucket) ==
    [op |-> op, public |-> public, i |-> i, bucket |-> bucket]

\* The manager calls and requests of main(), in program order.
Program ==
    <<Stmt("ensure_vpc", FALSE, 0, ""),
      Stmt("ensure_internet_gateway", FALSE, 0, ""),
      Stmt("describe_availability_zones", FALSE, 0, "")>>
    \o [i \in 1..Len(Zip(Config.public_cidr_blocks, AzNames)) |->
            Stmt("ensure_subnet", TRUE, i, "")]
    \o [i \in 1..Len(Zip(Config.private_cidr_blocks, AzNames)) |->
            Stmt("ensure_subnet", FALSE, i, "")]
    \o <<Stmt("ensure_bucket", FALSE, 0, Config.raw_bucket),
          Stmt("enable_versioning", FALSE, 0, Config.raw_bucket),
          Stmt("ensure_bucket", FALSE, 0, Config.curated_bucket),
          Stmt("enable_versioning", FALSE, 0, Config.curated_bucket)>>

\* f"public-{az}", f"private-{az}"
SubnetName(public, az) ==
    CASE public /\ az = "az-a" -> "public-az-a"
      [] public /\ az = "az-b" -> "public-az-b"
      [] public /\ az = "az-c" -> "public-az-c"
      [] ~public /\ az = "az-a" -> "private-az-a"
      [] ~public /\ az = "az-b" -> "private-az-b"
      [] ~public /\ az = "az-c" -> "private-az-c"

\* The arguments main() passes at a statement, from its local variables c.
StmtArgs(st, c) ==
    CASE st.op = "ensure_vpc" ->
            [name |-> "proj-dev", cidr |-> Config.vpc_cidr, tags |-> BaseTags]
      [] st.op = "ensure_internet_gateway" ->
            [vpc_id |-> c.vpc_id, name |-> "proj-dev-igw", tags |-> BaseTags]
      [] st.op = "describe_availability_zones" -> [region |-> Config.region]
      [] st.op = "ensure_subnet" ->
            LET pair == Zip(IF st.public THEN Config.public_cidr_blocks
                            ELSE Config.private_cidr_blocks, c.az_names)[st.i]
            IN  [name |-> SubnetName(st.public, pair[2]), vpc_id |-> c.vpc_id,
                 cidr |-> pair[1], az |-> pair[2], public |-> st.public,
                 tags |-> TierTags(IF st.public THEN "public" ELSE "private")]
      [] st.op = "ensure_bucket" -> [bucket |-> st.bucket, region |-> Config.region]
      [] st.op = "enable_versioning" -> [bucket |-> st.bucket]

\* The assignment main() makes with what the statement returned.
Bind(st, c, out) ==
    CASE st.op = "ensure_vpc" -> [c EXCEPT !.vpc_id = out.id]
      [] st.op = "ensure_internet_gateway" -> [c EXCEPT !.igw_id = out.id]
      [] st.op = "describe_availability_zones" -> [c EXCEPT !.az_names = AzNames]
      [] st.op = "ensure_subnet" /\ st.public ->
            [c EXCEPT !.public_subnets = Append(@, out.id)]
      [] st.op = "ensure_subnet" /\ ~st.public ->
            [c EXCEPT !.private_subnets = Append(@, out.id)]
      [] OTHER -> c

MainDone == pc = Len(Program) + 1
MainFailed == pc = -1

InitMain ==
    /\ prov = EmptyProvider
    /\ call = NoCall
    /\ invocations = 0
    /\ sleeps = <<>>
    /\ lastReqs = <<>>
    /\ issued = {}
    /\ ncreate = 0
    /\ pre = prov
    /\ prev = [op |-> "none", args |-> <<>>, status |-> "idle", out |-> NoOut]
    /\ ncalls = 0
    /\ pc = 0
    /\ ctx = NoContext
    /\ policy = [max_attempts |-> DefaultAttempts, backoff_seconds |-> DefaultBackoff]
    /\ order = <<>>
    /\ etl = NoRun

\* A driver that goes on to the next statement when one has raised.
ProceedsAnyway(status) == status \in {"returned", "raised"}

\* main() has no try: it reaches a statement only when the one before it
\* has returned.
Proceeds(status) == status = "returned"

\* The next statement of main(): the previous one has returned.
MainStep ==
    /\ \/ pc = 0 /\ call.status = "idle"
       \/ pc \in 1..(Len(Program) - 1) /\ Proceeds(call.status)
    /\ LET c == IF pc = 0 THEN ctx ELSE Bind(Program[pc], ctx, call.out)
           st == Program[pc + 1]
           mgr == Manager(st.op)
       IN  /\ ctx' = c
           /\ pc' = pc + 1
           /\ NewCall(st.op, StmtArgs(st, c), policy.max_attempts,
                      policy.backoff_seconds)
           /\ order' = IF mgr = "main" \/ (order # <<>> /\ order[Len(order)] = mgr)
                       THEN order ELSE Append(order, mgr)
    /\ UNCHANGED <<policy, etl>>

\* The last statement has returned: main() prints the table and returns.
MainReport ==
    /\ pc = Len(Program)
    /\ call.status = "returned"
    /\ ctx' = Bind(Program[pc], ctx, call.out)
    /\ pc' = pc + 1
    /\ UNCHANGED <<prov, call, invocations, sleeps, lastReqs, issued, ncreate, pre, prev,
                   ncalls, policy, order, etl>>

\* A statement raised: the exception leaves main() and the process exits.
MainFails ==
    /\ pc \in 1..Len(Program)
    /\ call.status = "raised"
    /\ pc' = -1
    /\ UNCHANGED <<prov, call, invocations, sleeps, lastReqs, issued, ncreate, pre, prev,
                   ncalls, ctx, policy, order, etl>>

NextMain ==
    MainStep \/ MainReport \/ MainFails
        \/ AttemptReturns \/ AttemptRetries \/ AttemptRaises

SpecMain == InitMain /\ [][NextMain]_vars

-----------------------------------------------------------------------------
(* VehicleMarketPipeline.run: the ETL pipeline.  The secrets store, the     *)
(* valuation API and the object store answer or fail; the clock may or may  *)
(* not have advanced between two readings.                                  *)

MaxPlates == 2

PlateNames == {"S8TAN", "B2XYZ"}

RECURSIVE SeqsUpTo(_, _)
SeqsUpTo(S, n) ==
    IF n = 0 THEN {<<>>}
    ELSE LET shorter == SeqsUpTo(S, n - 1)
         IN  shorter \cup {Append(q, x) : q \in shorter, x \in S}

\* PipelineConfig, with the plates of the run.
PipelineConfigOf(plates) ==
    [secret_name |-> "test/secret", endpoint |-> "https://api/vmv",
     default_state |-> "AL", plates |-> plates, raw_bucket |-> "raw",
     curated_bucket |-> "curated", raw_prefix |-> "raw_prefix",
     curated_prefix |-> "curated_prefix"]

\* What the store may hold under secret_name: the API key, an empty
\* SecretString, or a document without the key.
PipelineSecrets ==
    {[empty |-> FALSE, fields |-> [k \in {"x-rapidapi-key"} |-> "key"]],
     [empty |-> TRUE, fields |-> [k \in {} |-> ""]],
     [empty |-> FALSE, fields |-> [k \in {"other"} |-> "value"]]}

\* The documents the valuation API may answer with.
Payloads ==
    {[year |-> "2020", make |-> "Tesla", model |-> "Model 3",
      valuation |-> [retail |-> "50000"]],
     [year |-> "2019", make |-> "Saab"]}

\* dict.get(key), dict.get(key, default)
Get(d, k, default) == IF k \in DOMAIN d THEN d[k] ELSE default

NoDict == [k \in {} |-> ""]

_get_secret(secret, fault) ==
    IF fault THEN [err |-> "ClientError", key |-> ""]
    ELSE IF secret.empty THEN [err |-> "ValueError", key |-> ""]
    ELSE IF "x-rapidapi-key" \notin DOMAIN secret.fields
         THEN [err |-> "KeyError", key |-> ""]
    ELSE [err |-> "", key |-> secret.fields["x-rapidapi-key"]]

_normalize_payload(plate, payload, t) ==
    LET valuation == Get(payload, "valuation", NoDict)
    IN  [plate |-> plate, year |-> Get(payload, "year", "None"),
         make |-> Get(payload, "make", "None"),
         model |-> Get(payload, "model", "None"),
         trim |-> Get(payload, "trim", "None"),
         mileage |-> Get(payload, "mileage", "None"),
         condition |-> Get(payload, "condition", "None"),
         retail_value |-> Get(valuation, "retail", "None"),
         wholesale_value |-> Get(valuation, "wholesale", "None"),
         trade_in_value |-> Get(valuation, "trade_in", "None"),
         timestamp |-> t, source |-> "vehicle_market_value_api"]

_to_curated(records) == records

\* Clock readings in a day.
TicksPerDay == 4

\* strftime('%Y/%m/%d')
Day(t) == t \div TicksPerDay

\* f"{raw_prefix}/{plate}/{now.isoformat()}.json"
RawKey(c, plate, t) == <<c.raw_prefix, plate, t>>

\* f"{curated_prefix}/{now:%Y/%m/%d}/vehicles.json"
CuratedKey(c, t) == <<c.curated_prefix, "vehicles.json", Day(t)>>

\* A pipeline that writes the raw payloads to the curated bucket.
RawTargetCurated(c) == c.curated_bucket

\* _write_raw: Bucket=self.config.raw_bucket
RawTarget(c) == c.raw_bucket

\* put_object: the object replaces the one the bucket holds under the key.
PutObject(objects, bucket, key, body) ==
    LET Other(o) == ~(o.bucket = bucket /\ o.key = key)
    IN  Append(SelectSeq(objects, Other),
               [bucket |-> bucket, key |-> key, body |-> body])

\* A request the run has issued: to the secrets store, the API or a bucket.
Event(kind, target, plate, arg, ok) ==
    [kind |-> kind, target |-> target, plate |-> plate, arg |-> arg, ok |-> ok]

\* for plate in self.config.plates: the statement after the i-1 first plates
LoopPc(i, n) == IF i <= n THEN "fetch" ELSE "curated"

InitPipeline ==
    /\ prov = EmptyProvider
    /\ call = NoCall
    /\ invocations = 0
    /\ sleeps = <<>>
    /\ lastReqs = <<>>
    /\ issued = {}
    /\ ncreate = 0
    /\ pre = prov
    /\ prev = [op |-> "none", args |-> <<>>, status |-> "idle", out |-> NoOut]
    /\ ncalls = 0
    /\ pc = 0
    /\ ctx = NoContext
    /\ policy = [max_attempts |-> DefaultAttempts, backoff_seconds |-> DefaultBackoff]
    /\ order = <<>>
    /\ \E plates \in SeqsUpTo(PlateNames, MaxPlates), secret \in PipelineSecrets :
          etl = [pc |-> "secret", config |-> PipelineConfigOf(plates),
                 secret |-> secret, api_key |-> "", i |-> 1, payload |-> NoDict,
                 records |-> <<>>, log |-> <<>>, objects |-> <<>>, now |-> 0,
                 err |-> ""]

Deployer == <<prov, call, invocations, sleeps, lastReqs, issued, ncreate, pre,
              prev, ncalls, pc, ctx, policy, order>>

\* api_key = self._get_secret(self.config.secret_name)
PipelineGetSecret ==
    /\ etl.pc = "secret"
    /\ \E fault \in BOOLEAN :
         LET r == _get_secret(etl.secret, fault)
             e == Event("get_secret_value", etl.config.secret_name, "", "",
                        r.err = "")
         IN  etl' = IF r.err = ""
                    THEN [etl EXCEPT !.api_key = r.key,
                                     !.log = Append(@, e),
                                     !.pc = LoopPc(1, Len(etl.config.plates))]
                    ELSE [etl EXCEPT !.log = Append(@, e), !.err = r.err,
                                     !.pc = "failed"]
    /\ UNCHANGED Deployer

\* payload = self._fetch_vehicle_value(...); records.append(normalize(...))
PipelineFetch ==
    /\ etl.pc = "fetch"
    /\ LET plate == etl.config.plates[etl.i]
           e(ok) == Event("get", etl.config.endpoint, plate, etl.api_key, ok)
       IN  \/ etl' = [etl EXCEPT !.log = Append(@, e(FALSE)),
                                 !.err = "HTTPError", !.pc = "failed"]
           \/ \E payload \in Payloads, tick \in {0, 1} :
                 etl' = [etl EXCEPT
                            !.log = Append(@, e(TRUE)),
                            !.payload = payload,
                            !.now = @ + tick,
                            !.records = Append(@, _normalize_payload(
                                            plate, payload, etl.now + tick)),
                            !.pc = "raw"]
    /\ UNCHANGED Deployer

\* self._write_raw(plate, payload)
PipelineWriteRaw ==
    /\ etl.pc = "raw"
    /\ \E tick \in {0, 1} :
         LET plate == etl.config.plates[etl.i]
             t == etl.now + tick
             bucket == RawTarget(etl.config)
             e(ok) == Event("put_object", bucket, plate, "", ok)
         IN  \/ etl' = [etl EXCEPT !.log = Append(@, e(FALSE)), !.now = t,
                                   !.err = "ClientError", !.pc = "failed"]
             \/ etl' = [etl EXCEPT
                          !.log = Append(@, e(TRUE)),
                          !.now = t,
                          !.objects = PutObject(@, bucket,
                                          RawKey(etl.config, plate, t),
                                          etl.payload),
                          !.i = @ + 1,
                          !.pc = LoopPc(etl.i + 1, Len(etl.config.plates))]
    /\ UNCHANGED Deployer

\* self._write_curated(self._to_curated(records))
PipelineWriteCurated ==
    /\ etl.pc = "curated"
    /\ \E tick \in {0, 1} :
         LET t == etl.now + tick
             bucket == etl.config.curated_bucket
             e(ok) == Event("put_object", bucket, "", "", ok)
         IN  \/ etl' = [etl EXCEPT !.log = Append(@, e(FALSE)), !.now = t,
                                   !.err = "ClientError", !.pc = "failed"]
             \/ etl' = [etl EXCEPT
                          !.log = Append(@, e(TRUE)),
                          !.now = t,
                          !.objects = PutObject(@, bucket,
                                          CuratedKey(etl.config, t),
                                          _to_curated(etl.records)),
                          !.pc = "done"]
    /\ UNCHANGED Deployer

NextPipeline ==
    PipelineGetSecret \/ PipelineFetch \/ PipelineWriteRaw
        \/ PipelineWriteCurated

SpecPipeline == InitPipeline /\ [][NextPipeline]_vars

-----------------------------------------------------------------------------
(* Properties *)

LastResp == IF lastReqs = <<>> THEN "ok" ELSE lastReqs[Len(lastReqs)].resp

RECURSIVE SumSeq(_)
SumSeq(q) == IF q = <<>> THEN 0 ELSE q[1] + SumSeq(Tail(q))

\* B*1, ..., B*n
BackoffSchedule(b, n) == [k \in 1..n |-> b * k]

EnsureOperations ==
    {"ensure_vpc", "ensure_internet_gateway", "ensure_subnet",
     "ensure_nat_gateway", "ensure_auto_scaling_group", "ensure_bucket",
     "ensure_instance_profile", "ensure_route_table", "ensure_route",
     "ensure_security_group", "ensure_launch_template", "ensure_postgres"}

C2_NonTransientPropagates ==
    (Wrapped(call.op) /\ LastResp \in NonTransientCodes)
        => /\ call.status = "raised"
           /\ Len(sleeps) < invocations

(* C3: a second call of an ensure_* operation with the inputs of the first, *)
(* made once the first has returned, returns what the first returned and    *)
(* issues no creation request.                                              *)
C3_EnsureIdempotent ==
    (/\ call.op \in EnsureOperations
     /\ call.status = "returned"
     /\ prev.op = call.op
     /\ prev.status = "returned"
     /\ prev.args = call.args)
        => /\ call.out = prev.out
           /\ issued \cap CreationApis = {}

(* C4: when describe_auto_scaling_groups reports the "in use" fault for a   *)
(* group name, ensure_auto_scaling_group goes on to call                    *)
(* update_auto_scaling_group and does not call create_auto_scaling_group.   *)
C4_InUseRoutesToUpdate ==
    \A i \in 1..Len(lastReqs) :
        (/\ lastReqs[i].api = "describe_auto_scaling_groups"
         /\ lastReqs[i].resp = "ResourceInUseFault")
            => /\ i < Len(lastReqs)
               /\ lastReqs[i + 1].api = "update_auto_scaling_group"
               /\ "create_auto_scaling_group" \notin Apis(lastReqs)

(* C5: when the describe call returns, ensure_auto_scaling_group issues     *)
(* create (and not update) if it returned no group and update (and not      *)
(* create) if it returned the group; and when the call returns the group    *)
(* exists with the requested capacities and launch template.                *)
C5_AbsentCreatesPresentUpdates ==
    /\ \A i \in 1..Len(lastReqs) :
          (/\ lastReqs[i].api = "describe_auto_scaling_groups"
           /\ lastReqs[i].resp = "ok")
              => /\ i < Len(lastReqs)
                 /\ lastReqs[i + 1].api =
                       IF lastReqs[i].found THEN "update_auto_scaling_group"
                       ELSE "create_auto_scaling_group"
    /\ (call.op = "ensure_auto_scaling_group" /\ call.status = "returned")
          => AsgParams(call.args) \in prov.asgs

(* C6: a run of main() from an empty provider that reaches its end has      *)
(* created one VPC, two public and two private subnets, one security        *)
(* group, one launch template, one auto-scaling group, one database and     *)
(* two buckets, and every subnet is in the VPC ensure_vpc returned.         *)
C6_OneIdentifierPerResource ==
    MainDone
        => /\ Cardinality(prov.vpcs) = 1
           /\ Cardinality({n \in prov.subnets : n.tags["Tier"] = "public"}) = 2
           /\ Cardinality({n \in prov.subnets : n.tags["Tier"] = "private"}) = 2
           /\ \A n \in prov.subnets : n.vpc = ctx.vpc_id
           /\ Cardinality(prov.sgs) = 1
           /\ Cardinality(prov.lts) = 1
           /\ Cardinality(prov.asgs) = 1
           /\ Cardinality(prov.dbs) = 1
           /\ Cardinality(prov.buckets) = 2

DependencyOrder ==
    <<"VPCManager", "RouteTableManager", "NATGatewayManager",
      "SecurityGroupManager", "IAMManager", "LaunchTemplateManager",
      "AutoScalingManager", "SecretsManager", "RDSManager", "S3Manager">>

(* C7: main() uses the managers in the dependency order Network, Routing,   *)
(* NAT, Security Group, IAM, Launch Template, Auto Scaling, Secrets,        *)
(* Database, Storage: a run that reaches its end has used each of them, in  *)
(* this order, the Storage manager last.                                    *)
C7_ManagersInDependencyOrder ==
    MainDone => order = DependencyOrder

(* C8: every manager operation is retried: a call that raised a transient   *)
(* provider error has used all the attempts its retry policy allows.        *)
C8_EveryOperationRetried ==
    (call.status = "raised" /\ call.out.err \in TransientCodes)
        => invocations = call.attempts

(* C9: when ensure_vpc returns the id of a VPC that did not exist when the  *)
(* call began, that VPC has DNS support and DNS hostnames enabled, and it   *)
(* is the one VPC with that Name tag.                                       *)
C9_NewVpcHasDns ==
    (/\ call.op = "ensure_vpc"
     /\ call.status = "returned"
     /\ ~\E v \in pre.vpcs : HasName(v.tags, call.args.name))
        => /\ \E v \in prov.vpcs :
                v.id = call.out.id /\ v.dnsSupport /\ v.dnsHostnames
           /\ Cardinality({v \in prov.vpcs : HasName(v.tags, call.args.name)}) = 1

(* C10: a call of ensure_subnet that returns a subnet id has requested      *)
(* auto-assignment of public addresses on that subnet, in the attempt that  *)
(* returned, exactly when is_public is true, whether the subnet was created *)
(* or reused; with is_public false the call never issues that request.      *)
C10_PublicSubnetAlwaysMapped ==
    (call.op = "ensure_subnet" /\ call.status = "returned")
        => /\ call.args.public =>
                \E i \in 1..Len(lastReqs) :
                    /\ lastReqs[i].api = "modify_subnet_attribute"
                    /\ lastReqs[i].rid = call.out.id
           /\ ~call.args.public => "modify_subnet_attribute" \notin issued

(* C11: when ensure_instance_profile returns, it returns the input name;    *)
(* if the profile did not exist when the call began, the profile exists     *)
(* with the given role attached; and an attempt whose lookup finds the      *)
(* profile issues no create or attach request.                              *)
C11_ProfileHasRole ==
    /\ (call.op = "ensure_instance_profile" /\ call.status = "returned")
          => /\ call.out.name = call.args.name
             /\ \E x \in prov.profiles : x.name = call.args.name
             /\ (~\E x \in pre.profiles : x.name = call.args.name)
                    => \E x \in prov.profiles :
                          x.name = call.args.name /\ call.args.role_name \in x.roles
    /\ (/\ call.op = "ensure_instance_profile"
        /\ lastReqs # <<>>
        /\ lastReqs[1].resp = "ok")
          => Len(lastReqs) = 1

\* The secret the running call names is not stored, is empty or lacks a field.
UnusableSecret ==
    LET held == {x \in prov.secrets : x.name = call.args.secret_name}
    IN  \/ held = {}
        \/ \E x \in held :
              \/ x.empty
              \/ ~({call.args.username_key, call.args.password_key}
                      \subseteq DOMAIN x.fields)

(* C12: when get_secret_value answers fetch_credentials for a secret that   *)
(* is not stored, is empty or lacks a named field, the call has failed      *)
(* with that one request: the wrapper neither retries nor sleeps.           *)
C12_UnusableSecretNotRetried ==
    (/\ call.op = "fetch_credentials"
     /\ lastReqs # <<>>
     /\ lastReqs[1].resp \in {"ok", "ResourceNotFoundException"}
     /\ UnusableSecret)
        => /\ call.status = "raised"
           /\ Len(lastReqs) = 1
           /\ Len(sleeps) < invocations

C14_AuthorizeOncePerDirection ==
    call.op = "configure_rules" =>
        \A i \in 1..Len(lastReqs) :
            (/\ lastReqs[i].api = "describe_security_group_rules"
             /\ lastReqs[i].resp = "ok")
                => LET auth == IF lastReqs[i].rname = "true"
                               THEN "authorize_security_group_egress"
                               ELSE "authorize_security_group_ingress"
                       n == Cardinality({j \in 1..Len(lastReqs) :
                                            lastReqs[j].api = auth})
                   IN  IF lastReqs[i].found THEN n = 0
                       ELSE /\ n = 1
                            /\ i < Len(lastReqs)
                            /\ lastReqs[i + 1].api = auth
                            /\ call.out.err # "NameError"

NatRequests == <<"allocate_address", "create_nat_gateway",
                 "wait_nat_gateway_available">>

(* C15: every attempt of ensure_nat_gateway issues its requests in the      *)
(* order allocate_address, create_nat_gateway, wait; the call returns an    *)
(* id only after the wait for that gateway has reported it available, and   *)
(* the gateway is then available; a wait that fails ends the call with an   *)
(* error and no id.                                                         *)
C15_NatReturnedAfterWait ==
    call.op = "ensure_nat_gateway" =>
        /\ Len(lastReqs) <= 3
        /\ \A i \in 1..Len(lastReqs) :
              /\ lastReqs[i].api = NatRequests[i]
              /\ i < Len(lastReqs) => lastReqs[i].resp = "ok"
        /\ call.status = "returned"
              => /\ Len(lastReqs) = 3
                 /\ lastReqs[3].resp = "ok"
                 /\ lastReqs[3].rid = call.out.id
                 /\ lastReqs[2].rid = call.out.id
                 /\ \E n \in prov.nats : n.id = call.out.id /\ n.available
        /\ (Len(lastReqs) = 3 /\ lastReqs[3].resp # "ok")
              => /\ call.status = "raised"
                 /\ call.out.id = 0
                 /\ call.out.err = lastReqs[3].resp

\* A NAT gateway was created, waited for and returned.
C15_Witness ==
    /\ call.op = "ensure_nat_gateway"
    /\ call.status = "returned"
    /\ Len(lastReqs) = 3
    /\ \E n \in prov.nats : n.id = call.out.id /\ n.available /\ n \notin pre.nats

DbPresent(p) == \E x \in p.dbs : x.identifier = call.args.config.identifier

(* C16 as stated: a call of ensure_postgres that found the instance         *)
(* returned the identifier, issued no create request and left the instance  *)
(* as it was; a call that did not find it and returned issued exactly one   *)
(* create request.                                                          *)
C16_OneCreatePerCall ==
    (call.op = "ensure_postgres" /\ call.status = "returned")
        => /\ call.out.name = call.args.config.identifier
           /\ DbPresent(pre) => (ncreate = 0 /\ prov.dbs = pre.dbs)
           /\ ~DbPresent(pre) => ncreate = 1

(* C16 amended: an attempt of ensure_postgres whose probe finds the         *)
(* instance returns the identifier with that one request, and the call      *)
(* leaves the instance as it was; an attempt whose probe reports not-found  *)
(* issues exactly one create request carrying the credentials, so a call    *)
(* issues one create request per such attempt, at most max_attempts; the    *)
(* call that returns returns the identifier, and the instance then exists,  *)
(* created with the credentials.                                            *)
C16_OneCreatePerAttempt ==
    call.op = "ensure_postgres" =>
        /\ (lastReqs # <<>> /\ lastReqs[1].resp = "ok")
              => /\ Len(lastReqs) = 1
                 /\ call.status = "returned"
        /\ (lastReqs # <<>> /\ lastReqs[1].resp = "DBInstanceNotFound")
              => /\ Len(lastReqs) = 2
                 /\ lastReqs[2].api = "create_db_instance"
                 /\ lastReqs[2].params.username = call.args.credentials.username
                 /\ lastReqs[2].params.password = call.args.credentials.password
        /\ (lastReqs # <<>> /\ lastReqs[1].resp \notin {"ok", "DBInstanceNotFound"})
              => Len(lastReqs) = 1
        /\ ncreate <= invocations
        /\ invocations <= call.attempts
        /\ DbPresent(pre) => (ncreate = 0 /\ prov.dbs = pre.dbs)
        /\ call.status = "returned"
              => /\ call.out.name = call.args.config.identifier
                 /\ DbPresent(prov)
                 /\ ~DbPresent(pre)
                       => /\ ncreate >= 1
                          /\ prov.dbs = pre.dbs \cup {CreateDbParams(call.args)}

\* The first create request failed, the wrapper retried, the second created
\* the instance: two create requests in one call.
C16_Witness ==
    /\ call.op = "ensure_postgres"
    /\ call.status = "returned"
    /\ ~DbPresent(pre)
    /\ DbPresent(prov)
    /\ ncreate = 2

(* C17: in an attempt of ensure_launch_template, a lookup that fails with   *)
(* the not-found code or lists no template is followed by exactly one       *)
(* create request, and when that request succeeds the call returns the id   *)
(* of the template it created; a lookup that lists a template returns its   *)
(* id with no create request; a lookup that fails with any other code       *)
(* raises that code from the function with no create request.               *)
C17_LookupDecidesCreate ==
    (call.op = "ensure_launch_template" /\ lastReqs # <<>>)
        => LET d == lastReqs[1]
               creates == {i \in 1..Len(lastReqs) :
                              lastReqs[i].api = "create_launch_template"}
           IN  /\ d.api = "describe_launch_templates"
               /\ (d.resp = "ok" /\ d.found)
                     => /\ creates = {}
                        /\ call.status = "returned"
                        /\ \E t \in prov.lts :
                              t.id = call.out.id /\ t.name = call.args.name
               /\ (LookupMissing(d.resp) \/ (d.resp = "ok" /\ ~d.found))
                     => /\ creates = {2}
                        /\ Len(lastReqs) = 2
                        /\ lastReqs[2].resp = "ok"
                              => /\ call.status = "returned"
                                 /\ call.out.id = lastReqs[2].rid
                                 /\ \E t \in prov.lts \ pre.lts :
                                       t.id = call.out.id /\ t.name = call.args.name
                        /\ lastReqs[2].resp # "ok" => call.status # "returned"
               /\ (d.resp # "ok" /\ ~LookupMissing(d.resp))
                     => /\ creates = {}
                        /\ Len(lastReqs) = 1
                        /\ call.status # "returned"
                        /\ call.status = "raised" => call.out.err = d.resp

\* The lookup failed with the not-found code and the template was created.
C17_Witness ==
    /\ call.op = "ensure_launch_template"
    /\ call.status = "returned"
    /\ Len(lastReqs) = 2
    /\ LookupMissing(lastReqs[1].resp)
    /\ \E t \in prov.lts \ pre.lts : t.id = call.out.id

(* C18: in an attempt of ensure_bucket a create request is issued only      *)
(* after the head probe failed with 404 or NoSuchBucket (and then exactly   *)
(* one is); when the probe succeeds the attempt returns with no create      *)
(* request; when it fails with any other code the function raises that      *)
(* code and issues no create request.                                       *)
C18_CreateOnlyWhenMissing ==
    (call.op = "ensure_bucket" /\ lastReqs # <<>>)
        => LET h == lastReqs[1]
               creates == {i \in 1..Len(lastReqs) : lastReqs[i].api = "create_bucket"}
           IN  /\ h.api = "head_bucket"
               /\ creates # {} => h.resp \in {"404", "NoSuchBucket"}
               /\ h.resp \in {"404", "NoSuchBucket"}
                     => (creates = {2} /\ Len(lastReqs) = 2)
               /\ h.resp = "ok"
                     => /\ Len(lastReqs) = 1
                        /\ call.status = "returned"
               /\ h.resp \notin {"ok", "404", "NoSuchBucket"}
                     => /\ Len(lastReqs) = 1
                        /\ call.status # "returned"
                        /\ call.status = "raised" => call.out.err = h.resp

\* The probe was refused with 403 and the call raised 403.
C18_Witness ==
    /\ call.op = "ensure_bucket"
    /\ call.status = "raised"
    /\ Len(lastReqs) = 1
    /\ lastReqs[1].resp = "403"
    /\ call.out.err = "403"
    /\ prov.buckets = pre.buckets

(* C19: every create request ensure_bucket issues carries no location       *)
(* constraint when the region is us-east-1 and the region as location       *)
(* constraint otherwise, and the bucket a successful one creates has that   *)
(* location.                                                                *)
C19_LocationConstraintByRegion ==
    call.op = "ensure_bucket" =>
        \A i \in 1..Len(lastReqs) :
            lastReqs[i].api = "create_bucket"
                => LET expected == IF call.args.region = "us-east-1" THEN ""
                                   ELSE call.args.region
                   IN  /\ lastReqs[i].params.location = expected
                       /\ lastReqs[i].resp = "ok"
                             => \E b \in prov.buckets :
                                   /\ b.name = call.args.bucket
                                   /\ b.location = expected

\* A bucket was created in the default region with no location constraint.
C19_Witness ==
    /\ call.op = "ensure_bucket"
    /\ call.args.region = "us-east-1"
    /\ call.status = "returned"
    /\ Len(lastReqs) = 2
    /\ lastReqs[2].api = "create_bucket"
    /\ lastReqs[2].params.location = ""
    /\ \E b \in prov.buckets \ pre.buckets : b.location = ""

\* The resources of a provider state, by collection and identifier.
Resources(p) ==
    {<<"vpc", v.id>> : v \in p.vpcs} \cup {<<"igw", g.id>> : g \in p.igws}
        \cup {<<"subnet", n.id>> : n \in p.subnets}
        \cup {<<"bucket", b.name>> : b \in p.buckets}

(* C20: in a run of main(), once a manager call has raised, the run ends    *)
(* with that call's error: no later statement is begun, no further request  *)
(* is issued and the provider state stays as it is; and no step of a run    *)
(* removes a resource the run has created.                                  *)
C20_FailureEndsRun ==
    /\ [](MainFailed => call.status = "raised")
    /\ [][/\ call.status = "raised"
              => /\ call' = call
                 /\ prov' = prov
                 /\ ncalls' = ncalls
                 /\ invocations' = invocations
                 /\ pc' = -1
          /\ ~MainFailed
          /\ Resources(prov) \subseteq Resources(prov')]_vars

\* ensure_bucket raised after the VPC, the gateway and the four subnets had
\* been created: the run has ended and they are all there.
C20_Witness ==
    /\ MainFailed
    /\ call.op = "ensure_bucket"
    /\ call.status = "raised"
    /\ Cardinality(prov.vpcs) = 1
    /\ Cardinality(prov.igws) = 1
    /\ Cardinality(prov.subnets) = 4

\* The tag sets of the resources the provider holds that carry tags.
TagSets(p) ==
    {x.tags : x \in p.vpcs \cup p.igws \cup p.subnets \cup p.rtbs \cup p.sgs
                       \cup p.lts \cup p.eips \cup p.nats \cup p.asgs \cup p.dbs}

(* C21: every resource a manager has created carries the tags Name,        *)
(* Project and Environment, the auto-scaling group and the database         *)
(* included, and a resource a manager looks up by its Name tag carries the  *)
(* name it was created under.                                               *)
C21_TagSetHasName ==
    /\ \A t \in TagSets(prov) : {"Name", "Project", "Environment"} \subseteq DOMAIN t
    /\ (call.op \in {"ensure_vpc", "ensure_route_table"} /\ call.status = "returned")
          => \E x \in prov.vpcs \cup prov.rtbs :
                x.id = call.out.id /\ HasName(x.tags, call.args.name)

(* C23: when a call of ensure_nat_gateway has ended, the call has           *)
(* allocated at most one address and created at most one NAT gateway, and   *)
(* every address it allocated is bound to the NAT gateway it returned.      *)
C23_NoOrphanedAddress ==
    (call.op = "ensure_nat_gateway" /\ call.status \in {"returned", "raised"})
        => /\ Cardinality(prov.eips \ pre.eips) <= 1
           /\ Cardinality(prov.nats \ pre.nats) <= 1
           /\ \A e \in prov.eips \ pre.eips :
                 /\ call.status = "returned"
                 /\ \E n \in prov.nats : n.id = call.out.id /\ n.eip = e.id

(* C24: when a call of ensure_internet_gateway returns, the call has        *)
(* created at most one internet gateway and every gateway it created is     *)
(* attached to vpc_id.                                                      *)
C24_OneAttachedGateway ==
    (call.op = "ensure_internet_gateway" /\ call.status = "returned")
        => /\ Cardinality(prov.igws \ pre.igws) <= 1
           /\ \A g \in prov.igws \ pre.igws : g.vpc = call.args.vpc_id
           /\ \E g \in prov.igws : g.id = call.out.id /\ g.vpc = call.args.vpc_id

\* The requests of a run over the plates of c in which nothing fails.
ExpectedLog(c, key) ==
    LET n == Len(c.plates)
    IN  [j \in 1..(2 * n + 2) |->
            IF j = 1
            THEN Event("get_secret_value", c.secret_name, "", "", TRUE)
            ELSE IF j = 2 * n + 2
            THEN Event("put_object", "curated", "", "", TRUE)
            ELSE IF j % 2 = 0
            THEN Event("get", c.endpoint, c.plates[j \div 2], key, TRUE)
            ELSE Event("put_object", "raw", c.plates[j \div 2], "", TRUE)]

CountOf(log, kind) == Cardinality({j \in 1..Len(log) : log[j].kind = kind})

(* C22: a run of the pipeline over n plates in which nothing has failed     *)
(* has issued, in this order, a prefix of: the secret fetch, then for each  *)
(* plate in configuration order one API fetch with the fetched key          *)
(* followed by one write to the raw bucket, then one write to the curated   *)
(* bucket; the run that completes has issued them all, n fetches and n + 1  *)
(* object writes, and the curated object holds the n records.               *)
C22_PipelineOrder ==
    etl.pc \notin {"none", "failed"} =>
        LET expected == ExpectedLog(etl.config, "key")
            n == Len(etl.config.plates)
        IN  /\ Len(etl.log) <= Len(expected)
            /\ etl.log = SubSeq(expected, 1, Len(etl.log))
            /\ etl.pc = "done"
                  => /\ etl.log = expected
                     /\ CountOf(etl.log, "get_secret_value") = 1
                     /\ CountOf(etl.log, "get") = n
                     /\ CountOf(etl.log, "put_object") = n + 1
                     /\ LET last == etl.objects[Len(etl.objects)]
                        IN  /\ last.bucket = "curated"
                            /\ Len(last.body) = n
                            /\ \A k \in 1..n :
                                  last.body[k].plate = etl.config.plates[k]

\* A run over two plates completed: two fetches and three writes.
C22_Witness ==
    /\ etl.pc = "done"
    /\ Len(etl.config.plates) = 2
    /\ CountOf(etl.log, "get") = 2
    /\ CountOf(etl.log, "put_object") = 3

=============================================================================
